---- MODULE Spec2Model ----
(***************************************************************************)
(* EchoLingo: the audio translation pipeline of src/audio_translator.py    *)
(* and the start-up checks of src/main.py.  AudioTranslator objects are    *)
(* constructed and audio_translate_pipeline runs a bounded number of       *)
(* times.  Each run is modelled step by step: the existence check, the     *)
(* open of the input file, the Whisper call, the translation call, the     *)
(* ElevenLabs convert call, the open of the output file, the chunk loop    *)
(* and the playback call.  The four collaborators (Whisper, GoogleTrans-   *)
(* lator, ElevenLabs, playsound) are external: each call returns a value   *)
(* drawn from a small set or raises with a cause drawn from Causes.        *)
(***************************************************************************)
EXTENDS Naturals, Sequences, FiniteSets, TLC

VARIABLES
    pc,                \* position of the current run in the code
    args,              \* arguments of the current audio_translate_pipeline call
    inputFs,           \* what each input path is: "readable", "unreadable"
                       \* (a file without read permission), "directory", "absent"
    outDir,            \* the files under temp_audio: path -> bytes, or NoFile
    calls,             \* collaborator calls of the current run, in order
    original_text,     \* pipeline local (line 237)
    translated_text,   \* pipeline local (line 240)
    output_path,       \* text_to_speech local (line 160)
    output_audio_path, \* pipeline local (line 243)
    delivered,         \* chunks the response iterator has yielded so far
    handleOpen,        \* the output file object f of line 163 is open
    err,               \* the exception the run raised to its caller
    result,            \* the dict the run returned to its caller
    runs,              \* number of runs started
    prev,              \* what the caller got from the previous run
    fBuffer,           \* bytes f.write has taken that are not in the file yet
    buffer_size,       \* size of f's buffer while f is open, 0 when it is not
    file_limit,        \* bytes f's file may hold while f is open, 0 when it
                       \* is not
    environ,           \* os.environ: key -> value, or Unset when the key is absent
    installed,         \* package -> what __import__(package) does: "ok",
                       \* "missing" (ImportError) or "broken" (another exception)
    mainPc,            \* position of src/main.py's main()
    key_index,         \* keys of required_keys the loop of line 21 has done
    missing_keys,      \* check_environment local (line 19)
    printed,           \* the check lines main.py has printed, in order
    env_ok,            \* main local (line 120)
    pkg_index,         \* packages the loop of line 51 has done
    all_installed,     \* check_dependencies local (line 49)
    deps_ok,           \* main local (line 121)
    banner,            \* the banner main prints (lines 123-131)
    exit_code          \* what main returns (line 135)

vars == <<pc, args, inputFs, outDir, calls, original_text, translated_text,
          output_path, output_audio_path, delivered, handleOpen, err, result,
          runs, prev, fBuffer, buffer_size,
          file_limit, environ, installed, mainPc, key_index, missing_keys,
          printed, env_ok, pkg_index, all_installed, deps_ok, banner, exit_code>>

\* the state of src/main.py, which the pipeline never touches
mainVars == <<environ, installed, mainPc, key_index, missing_keys, printed,
              env_ok, pkg_index, all_installed, deps_ok, banner, exit_code>>

\* the state of the pipeline, which src/main.py never touches
pipelineVars == <<pc, args, inputFs, outDir, calls, original_text,
                  translated_text, output_path, output_audio_path, delivered,
                  handleOpen, err, result, runs, prev, fBuffer, buffer_size,
                  file_limit>>

----------------------------------------------------------------------------
(* Bounds *)

MaxRuns == 2
MaxChunks == 2

----------------------------------------------------------------------------
(* Input domains *)

Paths == {"hello.mp3", "locked.mp3", "temp_audio", "missing.mp3"}
Tags == {"es", "fr"}
Voices == {"ErXwobaYiN019PkySvjV"}
Transcripts == {"Hello world", ""}
Translations == {"Hola mundo", ""}
Causes == {"timeout"}
Chunks == {<<>>, <<1, 2>>, <<3, 4, 5>>}

\* what the file system of the output directory reports as st_blksize: the
\* usual 4096, and 2, the smallest value open() takes as its buffer size,
\* which makes a chunk of Chunks fill the buffer or exceed it
StBlksizes == {2, 4096}

\* no limit on the size of a file (RLIM_INFINITY)
Unlimited == 2147483647

\* how many bytes the process may write to a file (RLIMIT_FSIZE): none, one,
\* or no limit
FileLimits == {0, 1, Unlimited}

\* str(e) of the OSError a write beyond that limit raises
FileTooLarge == "[Errno 27] File too large"

\* src/main.py line 18: required_keys
required_keys == <<"OPENAI_API_KEY", "ELEVENLABS_API_KEY">>

\* src/main.py lines 41-47: the keys of packages, in the order of the dict
packages == <<"openai", "elevenlabs", "deep_translator", "pydub", "playsound3">>

\* src/main.py lines 41-47: the values of packages
descriptions ==
    [openai |-> "OpenAI API client", elevenlabs |-> "ElevenLabs TTS client",
     deep_translator |-> "Translation service", pydub |-> "Audio processing",
     playsound3 |-> "Audio playback"]

\* what importing a package can do, and what the exception of a broken
\* package says
ImportStates == {"ok", "missing", "broken"}
ImportFailures == {"broken install"}

\* what a key of os.environ can hold: nothing (the key is absent), the empty
\* string, or a value
EnvValues == {"<unset>", "", "sk-test"}

\* what the output directory's path can be before the first construction:
\* nothing, a directory, or a regular file
DirStates == {"absent", "directory", "readable"}

Unset == "<unset>"
NoFile == "<no file exists at this output path>"
NoError == [type |-> "none"]
NoResult == [returned |-> FALSE]
NoArgs == [called |-> FALSE]
NoPrev == [pc |-> "idle"]

----------------------------------------------------------------------------
(* Pure pieces of the code *)

\* line 45: Path("temp_audio")
output_dir == "temp_audio"

\* line 246: f"translated_{target_lang}.mp3"
OutputFilename(target_lang) == "translated_" \o target_lang \o ".mp3"

\* sep.join(seq) (line 160 inside pathlib, and src/main.py line 29)
RECURSIVE Join(_, _)
Join(sep, seq) ==
    IF seq = <<>> THEN ""
    ELSE IF Len(seq) = 1 THEN seq[1]
    ELSE seq[1] \o sep \o Join(sep, Tail(seq))

\* how pathlib reads a POSIX path: the pieces between the slashes, the root
\* ("/", or "//" for exactly two leading slashes, or none) and the parts,
\* which are the pieces other than "" and "."
RECURSIVE SplitPath(_, _, _)
SplitPath(s, piece, pieces) ==
    IF s = "" THEN Append(pieces, piece)
    ELSE IF Head(s) = "/" THEN SplitPath(Tail(s), "", Append(pieces, piece))
    ELSE SplitPath(Tail(s), piece \o Head(s), pieces)
PathRoot(s) ==
    IF Len(s) = 0 \/ Head(s) # "/" THEN ""
    ELSE IF Len(s) >= 2 /\ SubSeq(s, 1, 2) = "//"
            /\ (Len(s) = 2 \/ SubSeq(s, 3, 3) # "/")
         THEN "//"
         ELSE "/"
PathParts(s) == SelectSeq(SplitPath(s, "", <<>>), LAMBDA q : q # "" /\ q # ".")
PathStr(root, parts) ==
    IF root = "" /\ parts = <<>> THEN "." ELSE root \o Join("/", parts)

\* line 160 and line 171: str(self.output_dir / output_filename); a file
\* name with a root replaces the directory
OutputPath(dir, output_filename) ==
    IF PathRoot(output_filename) # ""
    THEN PathStr(PathRoot(output_filename), PathParts(output_filename))
    ELSE PathStr(PathRoot(dir), PathParts(dir) \o PathParts(output_filename))

\* line 160: the output path of each target language,
\* output_dir / f"translated_{target_lang}.mp3", computed once
OutputPathOf ==
    [target_lang \in Tags |->
        OutputPath(output_dir, OutputFilename(target_lang))]

\* the files the runs can write
OutPaths == {OutputPathOf[t] : t \in Tags}

\* line 163: open(output_path, "wb") creates the file or truncates it
\* (faulty variant: the output directory is emptied before the file is made)
OpenForWriteFresh(fs, path) ==
    [p \in DOMAIN fs |-> IF p = path THEN <<>> ELSE NoFile]
\* (faulty variant: opened with "ab", the old content stays)
OpenAppend(fs, path) ==
    [fs EXCEPT ![path] = IF @ = NoFile THEN <<>> ELSE @]
OpenForWrite(fs, path) == [fs EXCEPT ![path] = <<>>]

\* line 163: the buffer size of the BufferedWriter open(output_path, "wb")
\* returns: st_blksize of the file when that is above 1, else
\* io.DEFAULT_BUFFER_SIZE
DEFAULT_BUFFER_SIZE == 8192
BufferSizeOf(st_blksize) ==
    IF st_blksize > 1 THEN st_blksize ELSE DEFAULT_BUFFER_SIZE

\* the file object f of line 163 is a record: what its file holds on disk,
\* what waits in its buffer, the size of the buffer, how many bytes the file
\* system lets the file hold, and whether the last operation raised OSError

\* the bytes the file can still take
Room(file) ==
    IF file.limit > Len(file.disk) THEN file.limit - Len(file.disk) ELSE 0

\* lines 163 and 166: the BufferedWriter writes its buffer out.  The file
\* takes the bytes there is room for; when that is not all of them the next
\* write to the file raises and the others stay in the buffer
Flush(file) ==
    IF Len(file.buffer) <= Room(file)
    THEN [file EXCEPT !.disk = @ \o file.buffer, !.buffer = <<>>]
    ELSE [file EXCEPT !.disk = @ \o SubSeq(file.buffer, 1, Room(file)),
                      !.buffer = SubSeq(file.buffer, Room(file) + 1,
                                        Len(file.buffer)),
                      !.raised = TRUE]

\* line 166: f.write(data) with the buffer empty and data that did not fit:
\* while what is left of data is larger than the buffer it is written to the
\* file, which takes what there is room for and raises once it is full; what
\* is left in the end waits in the buffer
RECURSIVE WriteThrough(_, _)
WriteThrough(file, data) ==
    IF Len(data) <= file.size THEN [file EXCEPT !.buffer = data]
    ELSE IF Room(file) = 0 THEN [file EXCEPT !.raised = TRUE]
    ELSE LET n == IF Len(data) <= Room(file) THEN Len(data) ELSE Room(file)
         IN WriteThrough([file EXCEPT !.disk = @ \o SubSeq(data, 1, n)],
                         SubSeq(data, n + 1, Len(data)))

\* line 166: f.write(data) on the BufferedWriter.  Data that fits in the
\* buffer waits there; otherwise the buffer is written out first, then data
\* larger than the buffer goes straight to the file and smaller data waits
Fits(file, data) == Len(data) <= file.size - Len(file.buffer)
BufferedWrite(file, data) ==
    IF Fits(file, data)
    THEN [file EXCEPT !.buffer = @ \o data]
    ELSE IF Flush(file).raised THEN Flush(file)
         ELSE WriteThrough(Flush(file), data)

\* line 163: leaving the with block closes f, which writes the buffer out;
\* f is closed also when that raises, and what was not written is lost
CloseFile(file) ==
    [Flush([file EXCEPT !.raised = FALSE]) EXCEPT !.buffer = <<>>]

\* lines 165-166: if chunk: f.write(chunk)
\* (faulty variant: each write replaces what was written before)
WriteChunkOverwrite(file, chunk) ==
    IF chunk # <<>>
    THEN [file EXCEPT !.disk = <<>>, !.buffer = chunk]
    ELSE file
WriteChunk(file, chunk) ==
    IF chunk # <<>> THEN BufferedWrite(file, chunk) ELSE file

\* lines 66, 83, 113, 174: the exceptions the adapters raise
FileNotFound(path) ==
    [type |-> "FileNotFoundError", prefix |-> "Audio file not found: ", cause |-> path]
Wrapped(prefix, cause) ==
    [type |-> "Exception", prefix |-> prefix, cause |-> cause]
TranscribeError(cause) == Wrapped("Failed to transcribe audio: ", cause)
TranslateError(cause) == Wrapped("Failed to translate text: ", cause)
SpeechError(cause) == Wrapped("Failed to convert text to speech: ", cause)

\* str(e) of the OSError open() raises on the input file
OpenErrorText(state, path) ==
    CASE state = "absent" ->
           "[Errno 2] No such file or directory: '" \o path \o "'"
      [] state = "directory" ->
           "[Errno 21] Is a directory: '" \o path \o "'"
      [] OTHER ->
           "[Errno 13] Permission denied: '" \o path \o "'"

\* line 46: Path.mkdir(exist_ok=True) creates the directory, does nothing
\* when it is there and raises when the path is something else
MkdirRaises(fs, dir) == fs[dir] \notin {"absent", "directory"}
Mkdir(fs, dir) == [fs EXCEPT ![dir] = "directory"]
FileExists(path) ==
    [type |-> "FileExistsError", prefix |-> "[Errno 17] File exists: ",
     cause |-> "'" \o path \o "'"]

\* line 202: play_audio: bool = True
DefaultPlayAudio == TRUE

\* lines 258-262: the returned dict
\* (faulty variant: the transcript is left out of the dict)
PipelineResultNoTranscript(o, t, p) ==
    [returned |-> TRUE, original_text |-> "", translated_text |-> t,
     output_audio_path |-> p]
PipelineResult(o, t, p) ==
    [returned |-> TRUE, original_text |-> o, translated_text |-> t,
     output_audio_path |-> p]

\* a collaborator call: the service, what it was given, how it ended and
\* what it gave back
Call(svc, arg) == [svc |-> svc, arg |-> arg, status |-> "pending", ret |-> Unset]
Settle(cs, status, ret) ==
    [cs EXCEPT ![Len(cs)].status = status, ![Len(cs)].ret = ret]

\* lines 70-74: audio.transcriptions.create(model="whisper-1", file=audio_file)
WhisperRequest(audio_file_path) == Call("Transcription", audio_file_path)

\* lines 104-105: GoogleTranslator(source='auto', target=...).translate(text)
TranslationRequest(text, target_language) ==
    Call("Translation", [text |-> text, target |-> target_language])

\* lines 145-157: text_to_speech.convert(voice_id=..., text=..., ...)
SpeechRequest(text, voice_id) ==
    Call("Synthesis", [text |-> text, voice_id |-> voice_id])

\* line 190: playsound(audio_file_path)
PlaybackRequest(audio_file_path) == Call("Playback", audio_file_path)

----------------------------------------------------------------------------
(* Init: the process has started, nothing has been constructed or run *)

\* src/main.py has not been started
MainIdle ==
    /\ mainPc = "not_started"
    /\ key_index = 0
    /\ missing_keys = <<>>
    /\ printed = <<>>
    /\ env_ok = Unset
    /\ pkg_index = 0
    /\ all_installed = Unset
    /\ deps_ok = Unset
    /\ banner = Unset
    /\ exit_code = Unset

PipelineIdle ==
    /\ pc = "start"
    /\ args = NoArgs
    /\ inputFs \in {[p \in Paths |->
                       CASE p = "hello.mp3" -> "readable"
                         [] p = "locked.mp3" -> "unreadable"
                         [] p = "temp_audio" -> d
                         [] OTHER -> "absent"] : d \in DirStates}
    /\ outDir = [p \in OutPaths |-> NoFile]
    /\ calls = <<>>
    /\ original_text = Unset
    /\ translated_text = Unset
    /\ output_path = Unset
    /\ output_audio_path = Unset
    /\ delivered = <<>>
    /\ handleOpen = FALSE
    /\ err = NoError
    /\ result = NoResult
    /\ runs = 0
    /\ prev = NoPrev
    /\ fBuffer = <<>>
    /\ buffer_size = 0
    /\ file_limit = 0

\* the pipeline's process: both credentials are set and every package is there
Init ==
    /\ PipelineIdle
    /\ MainIdle
    /\ environ = [k \in {required_keys[i] : i \in 1..Len(required_keys)} |-> "sk-test"]
    /\ installed = [q \in {packages[i] : i \in 1..Len(packages)} |-> "ok"]

----------------------------------------------------------------------------
(* The open output file *)

\* the file object f of line 163, with the file at its path holding disk
OpenFile(disk) ==
    [disk |-> disk, buffer |-> fBuffer, size |-> buffer_size,
     limit |-> file_limit, raised |-> FALSE]

----------------------------------------------------------------------------
(* How a run ends *)

\* lines 264-266: except Exception as e: print(...); raise
Fail(e) ==
    /\ pc' = "failed"
    /\ err' = e
    /\ UNCHANGED result

\* lines 253-262: the banner and the return
Return(o, t, p) ==
    /\ pc' = "done"
    /\ result' = PipelineResult(o, t, p)
    /\ UNCHANGED err

\* what the caller holds once a run is over
Outcome ==
    IF pc = "done"
    THEN [pc |-> "done", target_lang |-> args.target_lang,
          output_audio_path |-> result.output_audio_path]
    ELSE IF pc = "failed" THEN [pc |-> "failed"] ELSE NoPrev

----------------------------------------------------------------------------
(* The run, step by step *)

\* lines 197-233: the caller invokes audio_translate_pipeline
StartRun(file_path, target_lang, voice, play_audio) ==
    /\ pc \in {"ready", "idle"}
    /\ runs < MaxRuns
    /\ runs' = runs + 1
    /\ args' = [file_path |-> file_path, target_lang |-> target_lang,
                voice |-> voice, play_audio |-> play_audio]
    /\ pc' = "transcribe_exists"
    /\ UNCHANGED mainVars
    /\ UNCHANGED <<fBuffer, buffer_size, file_limit>>
    /\ UNCHANGED <<inputFs, outDir, calls, original_text, translated_text,
                   output_path, output_audio_path, delivered, handleOpen, err,
                   result, prev>>

\* (faulty variant: the constructor starts from an empty output directory)
ConstructFresh ==
    /\ pc \in {"start", "ready", "idle"}
    /\ IF MkdirRaises(inputFs, output_dir)
       THEN /\ err' = FileExists(output_dir)
            /\ UNCHANGED <<pc, inputFs, outDir>>
       ELSE /\ inputFs' = Mkdir(inputFs, output_dir)
            /\ outDir' = [p \in DOMAIN outDir |-> NoFile]
            /\ pc' = "ready"
            /\ UNCHANGED err
    /\ UNCHANGED mainVars
    /\ UNCHANGED <<fBuffer, buffer_size, file_limit>>
    /\ UNCHANGED <<args, calls, original_text, translated_text,
                   output_path, output_audio_path, delivered, handleOpen,
                   result, runs, prev>>

\* lines 34-46 (src/example_usage.py lines 39, 77, 109): AudioTranslator();
\* the two clients are built and the output directory is made
Construct ==
    /\ pc \in {"start", "ready", "idle"}
    /\ IF MkdirRaises(inputFs, output_dir)
       THEN /\ err' = FileExists(output_dir)
            /\ UNCHANGED <<pc, inputFs>>
       ELSE /\ inputFs' = Mkdir(inputFs, output_dir)
            /\ pc' = "ready"
            /\ UNCHANGED err
    /\ UNCHANGED mainVars
    /\ UNCHANGED <<fBuffer, buffer_size, file_limit>>
    /\ UNCHANGED <<args, outDir, calls, original_text, translated_text,
                   output_path, output_audio_path, delivered, handleOpen,
                   result, runs, prev>>

\* lines 270-290: the module-level audio_translate_pipeline builds a new
\* AudioTranslator and calls the method without play_audio
ConvenienceRun(file_path, target_lang, voice) ==
    /\ pc \in {"start", "ready", "idle"}
    /\ runs < MaxRuns
    /\ IF MkdirRaises(inputFs, output_dir)
       THEN /\ err' = FileExists(output_dir)
            /\ UNCHANGED <<pc, args, inputFs, runs>>
       ELSE /\ inputFs' = Mkdir(inputFs, output_dir)
            /\ runs' = runs + 1
            /\ args' = [file_path |-> file_path, target_lang |-> target_lang,
                        voice |-> voice, play_audio |-> DefaultPlayAudio]
            /\ pc' = "transcribe_exists"
            /\ UNCHANGED err
    /\ UNCHANGED mainVars
    /\ UNCHANGED <<fBuffer, buffer_size, file_limit>>
    /\ UNCHANGED <<outDir, calls, original_text, translated_text,
                   output_path, output_audio_path, delivered, handleOpen,
                   result, prev>>

\* the call is over: its frame is gone and the caller is left with what it
\* returned or raised (src/example_usage.py lines 53-64, 88-98, 111-120)
CallerContinues ==
    /\ pc \in {"done", "failed"}
    /\ prev' = Outcome
    /\ pc' = "idle"
    /\ args' = NoArgs
    /\ calls' = <<>>
    /\ original_text' = Unset
    /\ translated_text' = Unset
    /\ output_path' = Unset
    /\ output_audio_path' = Unset
    /\ delivered' = <<>>
    /\ err' = NoError
    /\ result' = NoResult
    /\ UNCHANGED mainVars
    /\ UNCHANGED <<fBuffer, buffer_size, file_limit>>
    /\ UNCHANGED <<inputFs, outDir, handleOpen, runs>>

\* (faulty variant: the existence check is left out)
CheckExistsSkipped ==
    /\ pc = "transcribe_exists"
    /\ pc' = "transcribe_open"
    /\ UNCHANGED mainVars
    /\ UNCHANGED <<fBuffer, buffer_size, file_limit>>
    /\ UNCHANGED <<args, inputFs, outDir, calls, original_text, translated_text,
                   output_path, output_audio_path, delivered, handleOpen, err,
                   result, runs, prev>>

\* lines 64-66: if not os.path.exists(audio_file_path): raise FileNotFoundError
CheckExists ==
    /\ pc = "transcribe_exists"
    /\ IF inputFs[args.file_path] = "absent"
       THEN Fail(FileNotFound(args.file_path))
       ELSE /\ pc' = "transcribe_open"
            /\ UNCHANGED <<err, result>>
    /\ UNCHANGED mainVars
    /\ UNCHANGED <<fBuffer, buffer_size, file_limit>>
    /\ UNCHANGED <<args, inputFs, outDir, calls, original_text, translated_text,
                   output_path, output_audio_path, delivered, handleOpen, runs,
                   prev>>

\* lines 68-74 and 82-83: open(audio_file_path, "rb") inside the try; when it
\* succeeds the file goes to the Transcription Service
OpenInput ==
    /\ pc = "transcribe_open"
    /\ IF inputFs[args.file_path] = "readable"
       THEN /\ calls' = Append(calls, WhisperRequest(args.file_path))
            /\ pc' = "transcribing"
            /\ UNCHANGED <<err, result>>
       ELSE /\ Fail(TranscribeError(
                     OpenErrorText(inputFs[args.file_path], args.file_path)))
            /\ UNCHANGED calls
    /\ UNCHANGED mainVars
    /\ UNCHANGED <<fBuffer, buffer_size, file_limit>>
    /\ UNCHANGED <<args, inputFs, outDir, original_text, translated_text,
                   output_path, output_audio_path, delivered, handleOpen, runs,
                   prev>>

\* the environment: the input file is removed after the existence check and
\* before the open
InputVanishes ==
    /\ pc = "transcribe_open"
    /\ inputFs[args.file_path] = "readable"
    /\ inputFs' = [inputFs EXCEPT ![args.file_path] = "absent"]
    /\ UNCHANGED mainVars
    /\ UNCHANGED <<fBuffer, buffer_size, file_limit>>
    /\ UNCHANGED <<pc, args, outDir, calls, original_text, translated_text,
                   output_path, output_audio_path, delivered, handleOpen, err,
                   result, runs, prev>>

\* lines 76-80, 237-240 and 100-105: Whisper answers; the text is returned to
\* the pipeline, which hands it to translate_text
TranscribeReturn(text) ==
    /\ pc = "transcribing"
    /\ original_text' = text
    /\ calls' = Append(Settle(calls, "ok", text),
                       TranslationRequest(text, args.target_lang))
    /\ pc' = "translating"
    /\ UNCHANGED mainVars
    /\ UNCHANGED <<fBuffer, buffer_size, file_limit>>
    /\ UNCHANGED <<args, inputFs, outDir, translated_text, output_path,
                   output_audio_path, delivered, handleOpen, err, result, runs,
                   prev>>

\* (faulty variant: the failure is printed and the run goes on with an empty text)
TranscribeFailSwallowed(cause) ==
    /\ pc = "transcribing"
    /\ original_text' = ""
    /\ calls' = Append(Settle(calls, "failed", Unset),
                       TranslationRequest("", args.target_lang))
    /\ pc' = "translating"
    /\ UNCHANGED mainVars
    /\ UNCHANGED <<fBuffer, buffer_size, file_limit>>
    /\ UNCHANGED <<args, inputFs, outDir, translated_text, output_path,
                   output_audio_path, delivered, handleOpen, err, result, runs,
                   prev>>

\* lines 82-83: the Whisper call raises
TranscribeFail(cause) ==
    /\ pc = "transcribing"
    /\ calls' = Settle(calls, "failed", Unset)
    /\ Fail(TranscribeError(cause))
    /\ UNCHANGED mainVars
    /\ UNCHANGED <<fBuffer, buffer_size, file_limit>>
    /\ UNCHANGED <<args, inputFs, outDir, original_text, translated_text,
                   output_path, output_audio_path, delivered, handleOpen, runs,
                   prev>>

\* (faulty variant: the pipeline hands original_text to text_to_speech)
TranslateReturnSpeaksOriginal(text) ==
    /\ pc = "translating"
    /\ translated_text' = text
    /\ calls' = Append(Settle(calls, "ok", text),
                       SpeechRequest(original_text, args.voice))
    /\ pc' = "synthesizing"
    /\ UNCHANGED mainVars
    /\ UNCHANGED <<fBuffer, buffer_size, file_limit>>
    /\ UNCHANGED <<args, inputFs, outDir, original_text, output_path,
                   output_audio_path, delivered, handleOpen, err, result, runs,
                   prev>>

\* lines 107-110, 240-247 and 141-157: the translator answers; the text is
\* returned to the pipeline, which hands it to text_to_speech
TranslateReturn(text) ==
    /\ pc = "translating"
    /\ translated_text' = text
    /\ calls' = Append(Settle(calls, "ok", text),
                       SpeechRequest(text, args.voice))
    /\ pc' = "synthesizing"
    /\ UNCHANGED mainVars
    /\ UNCHANGED <<fBuffer, buffer_size, file_limit>>
    /\ UNCHANGED <<args, inputFs, outDir, original_text, output_path,
                   output_audio_path, delivered, handleOpen, err, result, runs,
                   prev>>

\* (faulty variant: a failed translation is tried again)
TranslateFailRetries(cause) ==
    /\ pc = "translating"
    /\ calls' = Append(Settle(calls, "failed", Unset),
                       TranslationRequest(original_text, args.target_lang))
    /\ UNCHANGED mainVars
    /\ UNCHANGED <<fBuffer, buffer_size, file_limit>>
    /\ UNCHANGED <<pc, args, inputFs, outDir, original_text, translated_text,
                   output_path, output_audio_path, delivered, handleOpen, err,
                   result, runs, prev>>

\* lines 112-113: the translator raises
TranslateFail(cause) ==
    /\ pc = "translating"
    /\ calls' = Settle(calls, "failed", Unset)
    /\ Fail(TranslateError(cause))
    /\ UNCHANGED mainVars
    /\ UNCHANGED <<fBuffer, buffer_size, file_limit>>
    /\ UNCHANGED <<args, inputFs, outDir, original_text, translated_text,
                   output_path, output_audio_path, delivered, handleOpen, runs,
                   prev>>

\* lines 145-160: convert() hands back the response iterator; the output
\* path is computed from the file name the pipeline passed (line 246)
ConvertReturn ==
    /\ pc = "synthesizing"
    /\ output_path' = OutputPathOf[args.target_lang]
    /\ pc' = "tts_open"
    /\ UNCHANGED mainVars
    /\ UNCHANGED <<fBuffer, buffer_size, file_limit>>
    /\ UNCHANGED <<args, inputFs, outDir, calls, original_text, translated_text,
                   output_audio_path, delivered, handleOpen, err, result, runs,
                   prev>>

\* (faulty variant: the output file is opened before the request is made)
ConvertFailTruncates(cause) ==
    /\ pc = "synthesizing"
    /\ outDir' = OpenForWrite(outDir, OutputPathOf[args.target_lang])
    /\ calls' = Settle(calls, "failed", Unset)
    /\ Fail(SpeechError(cause))
    /\ UNCHANGED mainVars
    /\ UNCHANGED <<fBuffer, buffer_size, file_limit>>
    /\ UNCHANGED <<args, inputFs, original_text, translated_text,
                   output_path, output_audio_path, delivered, handleOpen, runs,
                   prev>>

\* (faulty variant: a rejected request starts the run over)
ConvertFailStartsOver(cause) ==
    /\ pc = "synthesizing"
    /\ calls' = <<>>
    /\ original_text' = Unset
    /\ translated_text' = Unset
    /\ pc' = "transcribe_exists"
    /\ UNCHANGED mainVars
    /\ UNCHANGED <<fBuffer, buffer_size, file_limit>>
    /\ UNCHANGED <<args, inputFs, outDir, output_path, output_audio_path,
                   delivered, handleOpen, err, result, runs, prev>>

\* lines 173-174: convert() itself raises, before any response exists
ConvertFail(cause) ==
    /\ pc = "synthesizing"
    /\ calls' = Settle(calls, "failed", Unset)
    /\ Fail(SpeechError(cause))
    /\ UNCHANGED mainVars
    /\ UNCHANGED <<fBuffer, buffer_size, file_limit>>
    /\ UNCHANGED <<args, inputFs, outDir, original_text, translated_text,
                   output_path, output_audio_path, delivered, handleOpen, runs,
                   prev>>

\* line 163: with open(output_path, "wb") as f; the file system tells the
\* block size the buffer of f takes; the process has a limit on file sizes
OpenOutput(st_blksize, limit) ==
    /\ pc = "tts_open"
    /\ pc' = "tts_stream"
    /\ handleOpen' = TRUE
    /\ outDir' = OpenForWrite(outDir, output_path)
    /\ fBuffer' = <<>>
    /\ buffer_size' = BufferSizeOf(st_blksize)
    /\ file_limit' = limit
    /\ UNCHANGED mainVars
    /\ UNCHANGED <<args, inputFs, calls, original_text, translated_text,
                   output_path, output_audio_path, delivered, err, result, runs,
                   prev>>

\* lines 163 and 173-174: the open of the output file raises; the response
\* of the Synthesis Service is never read
OpenOutputFail(cause) ==
    /\ pc = "tts_open"
    /\ calls' = Settle(calls, "abandoned", Unset)
    /\ Fail(SpeechError(cause))
    /\ UNCHANGED mainVars
    /\ UNCHANGED <<fBuffer, buffer_size, file_limit>>
    /\ UNCHANGED <<args, inputFs, outDir, original_text, translated_text,
                   output_path, output_audio_path, delivered, handleOpen, runs,
                   prev>>

\* lines 164-166 and 173-174: the iterator yields a chunk; a non-empty one
\* is handed to f.write, which keeps it in its buffer or writes it out.
\* When f.write raises, the with statement closes f, the rest of the
\* response is never read and the except clause wraps the OSError
StreamChunk(chunk) ==
    /\ pc = "tts_stream"
    /\ Len(delivered) < MaxChunks
    /\ delivered' = Append(delivered, chunk)
    /\ LET file == WriteChunk(OpenFile(outDir[output_path]), chunk) IN
         IF file.raised
         THEN /\ handleOpen' = FALSE
              /\ outDir' = [outDir EXCEPT ![output_path] = CloseFile(file).disk]
              /\ fBuffer' = <<>>
              /\ buffer_size' = 0
              /\ file_limit' = 0
              /\ calls' = Settle(calls, "abandoned", Unset)
              /\ Fail(SpeechError(FileTooLarge))
         ELSE /\ outDir' = [outDir EXCEPT ![output_path] = file.disk]
              /\ fBuffer' = file.buffer
              /\ UNCHANGED <<pc, calls, handleOpen, err, result, buffer_size,
                             file_limit>>
    /\ UNCHANGED mainVars
    /\ UNCHANGED <<args, inputFs, original_text, translated_text,
                   output_path, output_audio_path, runs, prev>>

\* (faulty variant: the except clause removes the partial file)
StreamFailCleansUp(cause) ==
    /\ pc = "tts_stream"
    /\ handleOpen' = FALSE
    /\ fBuffer' = <<>>
    /\ buffer_size' = 0
    /\ file_limit' = 0
    /\ outDir' = [outDir EXCEPT ![output_path] = NoFile]
    /\ calls' = Settle(calls, "failed", Unset)
    /\ Fail(SpeechError(cause))
    /\ UNCHANGED mainVars
    /\ UNCHANGED <<args, inputFs, original_text, translated_text,
                   output_path, output_audio_path, delivered, runs, prev>>

\* (faulty variant: no with statement, f.close() only follows the loop)
StreamFailLeaks(cause) ==
    /\ pc = "tts_stream"
    /\ calls' = Settle(calls, "failed", Unset)
    /\ Fail(SpeechError(cause))
    /\ UNCHANGED mainVars
    /\ UNCHANGED <<fBuffer, buffer_size, file_limit>>
    /\ UNCHANGED <<args, inputFs, outDir, original_text, translated_text,
                   output_path, output_audio_path, delivered, handleOpen,
                   runs, prev>>

\* (faulty variant: the failure is swallowed and the path is returned all the same)
StreamFailSwallowed(cause) ==
    /\ pc = "tts_stream"
    /\ handleOpen' = FALSE
    /\ outDir' = [outDir EXCEPT ![output_path] =
                   CloseFile(OpenFile(@)).disk]
    /\ fBuffer' = <<>>
    /\ buffer_size' = 0
    /\ file_limit' = 0
    /\ output_audio_path' = output_path
    /\ IF args.play_audio
       THEN /\ calls' = Append(Settle(calls, "failed", Unset),
                               PlaybackRequest(output_path))
            /\ pc' = "playing"
            /\ UNCHANGED <<err, result>>
       ELSE /\ calls' = Settle(calls, "failed", Unset)
            /\ Return(original_text, translated_text, output_path)
    /\ UNCHANGED mainVars
    /\ UNCHANGED <<args, inputFs, original_text, translated_text,
                   output_path, delivered, runs, prev>>

\* lines 163-166 and 173-174: the iterator raises inside the with block; the
\* with statement closes f, which writes the buffer out, and the except
\* clause wraps the error: the iterator's, or the OSError of the close when
\* the buffer cannot be written
StreamFail(cause) ==
    /\ pc = "tts_stream"
    /\ handleOpen' = FALSE
    /\ outDir' = [outDir EXCEPT ![output_path] = CloseFile(OpenFile(@)).disk]
    /\ fBuffer' = <<>>
    /\ buffer_size' = 0
    /\ file_limit' = 0
    /\ calls' = Settle(calls, "failed", Unset)
    /\ IF CloseFile(OpenFile(outDir[output_path])).raised
       THEN Fail(SpeechError(FileTooLarge))
       ELSE Fail(SpeechError(cause))
    /\ UNCHANGED mainVars
    /\ UNCHANGED <<args, inputFs, original_text, translated_text,
                   output_path, output_audio_path, delivered, runs, prev>>

\* (faulty variant: the pipeline plays the file whatever play_audio says)
StreamEndAlwaysPlays ==
    /\ pc = "tts_stream"
    /\ handleOpen' = FALSE
    /\ outDir' = [outDir EXCEPT ![output_path] =
                   CloseFile(OpenFile(@)).disk]
    /\ fBuffer' = <<>>
    /\ buffer_size' = 0
    /\ file_limit' = 0
    /\ output_audio_path' = output_path
    /\ calls' = Append(Settle(calls, "ok", Unset), PlaybackRequest(output_path))
    /\ pc' = "playing"
    /\ UNCHANGED mainVars
    /\ UNCHANGED <<args, inputFs, original_text, translated_text,
                   output_path, delivered, err, result, runs, prev>>

\* lines 164-174 and 243-262: the iterator is exhausted; f is closed, which
\* writes the buffer out, and the path is returned to the pipeline, which
\* plays it or returns; when the close raises, the except clause wraps the
\* OSError although the Synthesis Service delivered everything
StreamEnd ==
    /\ pc = "tts_stream"
    /\ handleOpen' = FALSE
    /\ outDir' = [outDir EXCEPT ![output_path] = CloseFile(OpenFile(@)).disk]
    /\ fBuffer' = <<>>
    /\ buffer_size' = 0
    /\ file_limit' = 0
    /\ IF CloseFile(OpenFile(outDir[output_path])).raised
       THEN /\ calls' = Settle(calls, "ok", Unset)
            /\ Fail(SpeechError(FileTooLarge))
            /\ UNCHANGED output_audio_path
       ELSE /\ output_audio_path' = output_path
            /\ IF args.play_audio
               THEN /\ calls' = Append(Settle(calls, "ok", Unset),
                                       PlaybackRequest(output_path))
                    /\ pc' = "playing"
                    /\ UNCHANGED <<err, result>>
               ELSE /\ calls' = Settle(calls, "ok", Unset)
                    /\ Return(original_text, translated_text, output_path)
    /\ UNCHANGED mainVars
    /\ UNCHANGED <<args, inputFs, original_text, translated_text,
                   output_path, delivered, runs, prev>>

\* lines 190-191 and 253-262: playsound returns
PlayReturn ==
    /\ pc = "playing"
    /\ calls' = Settle(calls, "ok", Unset)
    /\ Return(original_text, translated_text, output_audio_path)
    /\ UNCHANGED mainVars
    /\ UNCHANGED <<fBuffer, buffer_size, file_limit>>
    /\ UNCHANGED <<args, inputFs, outDir, original_text, translated_text,
                   output_path, output_audio_path, delivered, handleOpen, runs,
                   prev>>

\* (faulty variant: play_audio wraps and re-raises like the other adapters)
PlayFailPropagates(cause) ==
    /\ pc = "playing"
    /\ calls' = Settle(calls, "failed", Unset)
    /\ Fail(Wrapped("Failed to play audio: ", cause))
    /\ UNCHANGED mainVars
    /\ UNCHANGED <<fBuffer, buffer_size, file_limit>>
    /\ UNCHANGED <<args, inputFs, outDir, original_text, translated_text,
                   output_path, output_audio_path, delivered, handleOpen, runs,
                   prev>>

\* lines 193-195 and 253-262: playsound raises; play_audio prints the warning
\* and returns normally
PlayFail(cause) ==
    /\ pc = "playing"
    /\ calls' = Settle(calls, "failed", Unset)
    /\ Return(original_text, translated_text, output_audio_path)
    /\ UNCHANGED mainVars
    /\ UNCHANGED <<fBuffer, buffer_size, file_limit>>
    /\ UNCHANGED <<args, inputFs, outDir, original_text, translated_text,
                   output_path, output_audio_path, delivered, handleOpen, runs,
                   prev>>

----------------------------------------------------------------------------

Next ==
    \/ Construct
    \/ \E f \in Paths, t \in Tags, v \in Voices : ConvenienceRun(f, t, v)
    \/ \E f \in Paths, t \in Tags, v \in Voices, p \in BOOLEAN : StartRun(f, t, v, p)
    \/ CallerContinues
    \/ CheckExists
    \/ OpenInput
    \/ InputVanishes
    \/ \E text \in Transcripts : TranscribeReturn(text)
    \/ \E cause \in Causes : TranscribeFail(cause)
    \/ \E text \in Translations : TranslateReturn(text)
    \/ \E cause \in Causes : TranslateFail(cause)
    \/ ConvertReturn
    \/ \E cause \in Causes : ConvertFail(cause)
    \/ \E st_blksize \in StBlksizes, limit \in FileLimits :
          OpenOutput(st_blksize, limit)
    \/ \E cause \in Causes : OpenOutputFail(cause)
    \/ \E chunk \in Chunks : StreamChunk(chunk)
    \/ \E cause \in Causes : StreamFail(cause)
    \/ StreamEnd
    \/ PlayReturn
    \/ \E cause \in Causes : PlayFail(cause)

Spec == Init /\ [][Next]_vars

\* a step of the run itself: the code goes on by itself and every
\* collaborator call comes back, with a value or with an exception
RunStep ==
    \/ CheckExists
    \/ OpenInput
    \/ \E text \in Transcripts : TranscribeReturn(text)
    \/ \E cause \in Causes : TranscribeFail(cause)
    \/ \E text \in Translations : TranslateReturn(text)
    \/ \E cause \in Causes : TranslateFail(cause)
    \/ ConvertReturn
    \/ \E cause \in Causes : ConvertFail(cause)
    \/ \E st_blksize \in StBlksizes, limit \in FileLimits :
          OpenOutput(st_blksize, limit)
    \/ \E cause \in Causes : OpenOutputFail(cause)
    \/ \E chunk \in Chunks : StreamChunk(chunk)
    \/ \E cause \in Causes : StreamFail(cause)
    \/ StreamEnd
    \/ PlayReturn
    \/ \E cause \in Causes : PlayFail(cause)

\* the pipeline is synchronous: a run that can take a step takes it (every
\* step of a run moves pc or takes a chunk)
FairSpec == Init /\ [][Next]_vars /\ WF_<<pc, delivered>>(RunStep)

----------------------------------------------------------------------------
(* src/main.py: the start-up checks *)

\* line 22: os.environ.get(key) is None when the key is absent
EnvironGet(env, key) == env[key]

\* line 22: `if value:` of a string or None
\* (faulty variant: `if value is not None:`, an empty value counts as set)
TruthyNotNone(value) == value # Unset
Truthy(value) == value # Unset /\ value # ""

\* lines 23, 25, 29, 33, 54, 56, 60, 63: the lines the checks print
KeySetLine(key) == [mark |-> "ok", text |-> key \o " is set"]
KeyMissingLine(key) == [mark |-> "missing", text |-> key \o " is missing"]
MissingKeysLine(keys) ==
    [mark |-> "warning", text |-> "Warning: Missing API keys: " \o Join(", ", keys)]
AllConfiguredLine ==
    [mark |-> "ok", text |-> "All environment variables are configured!"]
PackageLine(package) ==
    [mark |-> "ok", text |-> package \o " - " \o descriptions[package]]
PackageMissingLine(package) ==
    [mark |-> "missing",
     text |-> package \o " - " \o descriptions[package] \o " (NOT INSTALLED)"]
\* line 138: the line main prints when the start-up raises
StartupErrorLine(cause) ==
    [mark |-> "error", text |-> "Error during startup: " \o cause]
PackagesMissingLine ==
    [mark |-> "warning", text |-> "Some packages are missing. Run: uv add <package-name>"]
AllInstalledLine == [mark |-> "ok", text |-> "All dependencies are installed!"]

\* lines 117-120 and 13-19: main calls check_environment
MainStart ==
    /\ mainPc = "not_started"
    /\ mainPc' = "check_environment"
    /\ key_index' = 0
    /\ missing_keys' = <<>>
    /\ UNCHANGED <<environ, installed, printed, env_ok, pkg_index,
                   all_installed, deps_ok, banner, exit_code>>
    /\ UNCHANGED pipelineVars

\* lines 21-26: one turn of the loop over required_keys
CheckKey ==
    /\ mainPc = "check_environment"
    /\ key_index < Len(required_keys)
    /\ LET key == required_keys[key_index + 1] IN
         IF Truthy(EnvironGet(environ, key))
         THEN /\ printed' = Append(printed, KeySetLine(key))
              /\ UNCHANGED missing_keys
         ELSE /\ printed' = Append(printed, KeyMissingLine(key))
              /\ missing_keys' = Append(missing_keys, key)
    /\ key_index' = key_index + 1
    /\ UNCHANGED <<environ, installed, mainPc, env_ok, pkg_index,
                   all_installed, deps_ok, banner, exit_code>>
    /\ UNCHANGED pipelineVars

\* lines 28-34, 120-121 and 39-49: check_environment returns and main calls
\* check_dependencies
CheckEnvironmentReturn ==
    /\ mainPc = "check_environment"
    /\ key_index = Len(required_keys)
    /\ IF missing_keys # <<>>
       THEN /\ printed' = Append(printed, MissingKeysLine(missing_keys))
            /\ env_ok' = FALSE
       ELSE /\ printed' = Append(printed, AllConfiguredLine)
            /\ env_ok' = TRUE
    /\ mainPc' = "check_dependencies"
    /\ pkg_index' = 0
    /\ all_installed' = TRUE
    /\ UNCHANGED <<environ, installed, key_index, missing_keys, deps_ok,
                   banner, exit_code>>
    /\ UNCHANGED pipelineVars

\* lines 51-57: one turn of the loop over packages; the import succeeds or
\* raises ImportError
CheckPackage ==
    /\ mainPc = "check_dependencies"
    /\ pkg_index < Len(packages)
    /\ installed[packages[pkg_index + 1]] # "broken"
    /\ LET package == packages[pkg_index + 1] IN
         IF installed[package] = "ok"
         THEN /\ printed' = Append(printed, PackageLine(package))
              /\ UNCHANGED all_installed
         ELSE /\ printed' = Append(printed, PackageMissingLine(package))
              /\ all_installed' = FALSE
    /\ pkg_index' = pkg_index + 1
    /\ UNCHANGED <<environ, installed, mainPc, key_index, missing_keys,
                   env_ok, deps_ok, banner, exit_code>>
    /\ UNCHANGED pipelineVars

\* lines 53, 55 and 137-139: the import raises something else than
\* ImportError; it leaves check_dependencies and is caught by main, which
\* prints it and returns 1
CheckPackageRaises(cause) ==
    /\ mainPc = "check_dependencies"
    /\ pkg_index < Len(packages)
    /\ installed[packages[pkg_index + 1]] = "broken"
    /\ printed' = Append(printed, StartupErrorLine(cause))
    /\ exit_code' = 1
    /\ mainPc' = "exited"
    /\ UNCHANGED <<environ, installed, key_index, missing_keys, env_ok,
                   pkg_index, all_installed, deps_ok, banner>>
    /\ UNCHANGED pipelineVars

\* lines 59-64 and 121: check_dependencies returns
CheckDependenciesReturn ==
    /\ mainPc = "check_dependencies"
    /\ pkg_index = Len(packages)
    /\ IF ~all_installed
       THEN /\ printed' = Append(printed, PackagesMissingLine)
            /\ deps_ok' = FALSE
       ELSE /\ printed' = Append(printed, AllInstalledLine)
            /\ deps_ok' = TRUE
    /\ mainPc' = "banner"
    /\ UNCHANGED <<environ, installed, key_index, missing_keys, env_ok,
                   pkg_index, all_installed, banner, exit_code>>
    /\ UNCHANGED pipelineVars

\* lines 123-135: the banner, the usage text and the return
MainReturn ==
    /\ mainPc = "banner"
    /\ banner' = IF env_ok /\ deps_ok THEN "SYSTEM READY" ELSE "SETUP INCOMPLETE"
    /\ exit_code' = 0
    /\ mainPc' = "exited"
    /\ UNCHANGED <<environ, installed, key_index, missing_keys, printed,
                   env_ok, pkg_index, all_installed, deps_ok>>
    /\ UNCHANGED pipelineVars

\* main.py is started in any environment
MainInit ==
    /\ PipelineIdle
    /\ MainIdle
    /\ environ \in [{required_keys[i] : i \in 1..Len(required_keys)} -> EnvValues]
    /\ installed \in [{packages[i] : i \in 1..Len(packages)} -> ImportStates]

MainNext ==
    \/ MainStart
    \/ CheckKey
    \/ CheckEnvironmentReturn
    \/ CheckPackage
    \/ \E cause \in ImportFailures : CheckPackageRaises(cause)
    \/ CheckDependenciesReturn
    \/ MainReturn

MainSpec == MainInit /\ [][MainNext]_vars

----------------------------------------------------------------------------
(* Vocabulary of the properties *)

\* the collaborators in the order the pipeline uses them
Stages == <<"Transcription", "Translation", "Synthesis", "Playback">>

Invoked(svc) == \E i \in 1..Len(calls) : calls[i].svc = svc
FailedCall(svc) ==
    \E i \in 1..Len(calls) : calls[i].svc = svc /\ calls[i].status = "failed"

\* the error kinds of the specification, read off the raised exception
ErrorKind(e) ==
    CASE e.type = "FileNotFoundError" -> "InputNotFound"
      [] e.type = "Exception" /\ e.prefix = "Failed to transcribe audio: " ->
           "TranscriptionFailed"
      [] e.type = "Exception" /\ e.prefix = "Failed to translate text: " ->
           "TranslationFailed"
      [] e.type = "Exception" /\ e.prefix = "Failed to convert text to speech: " ->
           "SynthesisFailed"
      [] OTHER -> "Other"

\* the stage a failed run stopped in: Resolving until the Transcription
\* Service has been called, then the stage of the last call
FailedStage ==
    IF calls = <<>> THEN "Resolving"
    ELSE CASE calls[Len(calls)].svc = "Transcription" -> "Transcribing"
           [] calls[Len(calls)].svc = "Translation" -> "Translating"
           [] calls[Len(calls)].svc = "Synthesis" -> "Synthesizing"
           [] OTHER -> "Playing"

StageError(stage) ==
    CASE stage = "Resolving" -> "InputNotFound"
      [] stage = "Transcribing" -> "TranscriptionFailed"
      [] stage = "Translating" -> "TranslationFailed"
      [] stage = "Synthesizing" -> "SynthesisFailed"
      [] OTHER -> "PlaybackFailed"

\* two files, or two directories, hold the same: both absent or the same bytes
SameFile(a, b) == IF a = NoFile THEN b = NoFile ELSE (b # NoFile /\ a = b)
SameFiles(fs1, fs2) == \A p \in DOMAIN fs1 : SameFile(fs1[p], fs2[p])

\* a is the beginning of b
IsPrefix(a, b) == Len(a) <= Len(b) /\ a = SubSeq(b, 1, Len(a))

\* the bytes of a chunk sequence, empty chunks left out
RECURSIVE Flatten(_)
Flatten(chunks) ==
    IF chunks = <<>> THEN <<>> ELSE Head(chunks) \o Flatten(Tail(chunks))
NonEmptyChunks(chunks) == SelectSeq(chunks, LAMBDA c : c # <<>>)

----------------------------------------------------------------------------
(* Properties *)

\* C1: when the existence check finds no file at the input path, the run
\* fails at that step with FileNotFoundError naming the path, with no
\* collaborator called and nothing returned; and a run that failed with
\* FileNotFoundError has called no collaborator.
C1_MissingInputFailsFirst ==
    /\ [][(pc = "transcribe_exists" /\ inputFs[args.file_path] = "absent")
            => /\ pc' = "failed"
               /\ err'.type = "FileNotFoundError"
               /\ err'.cause = args.file_path
               /\ calls' = <<>>
               /\ result' = NoResult]_vars
    /\ [](pc = "failed" /\ err.type = "FileNotFoundError"
            => calls = <<>> /\ result = NoResult)
C1_Witness ==
    /\ pc = "failed"
    /\ args.file_path = "missing.mp3"
    /\ inputFs["missing.mp3"] = "absent"
    /\ err.type = "FileNotFoundError"
    /\ calls = <<>>

\* C2: a failed run surfaces the error of the stage it failed in, carrying
\* the cause, nothing is called after the failing stage and nothing is
\* returned.
C2_FailureIsTheStagesOwnError ==
    pc = "failed" =>
        /\ ErrorKind(err) = StageError(FailedStage)
        /\ err.cause \in Causes \cup {FileTooLarge} \cup Paths
        /\ \A i \in 1..Len(calls) :
              IF i = Len(calls) THEN calls[i].status # "pending"
              ELSE calls[i].status = "ok"
        /\ result = NoResult

\* C2, the part the code keeps: once a service has been called, a failed run
\* surfaces the error of the stage of its last call, with the cause the
\* service or the output file gave; the calls before the last one succeeded,
\* the last one is over, and nothing is returned.
C2_ServiceFailureIsTheStagesOwnError ==
    (pc = "failed" /\ calls # <<>>) =>
        /\ ErrorKind(err) = StageError(FailedStage)
        /\ err.cause \in Causes \cup {FileTooLarge}
        /\ \A i \in 1..Len(calls) :
              IF i = Len(calls) THEN calls[i].status # "pending"
              ELSE calls[i].status = "ok"
        /\ result = NoResult

\* C3: if the Transcription Service failed, the run is over and neither
\* Translation nor Synthesis nor Playback has been invoked in it.
C3_TranscriptionFailureStopsTheRun ==
    FailedCall("Transcription") =>
        /\ pc = "failed"
        /\ ~Invoked("Translation")
        /\ ~Invoked("Synthesis")
        /\ ~Invoked("Playback")
C3_Witness ==
    /\ pc = "failed"
    /\ Len(calls) = 1
    /\ calls[1].svc = "Transcription"
    /\ calls[1].status = "failed"
    /\ ErrorKind(err) = "TranscriptionFailed"

\* C4: if the Synthesis Service failed (at the request, at the open of the
\* output file or at any chunk), Playback has not been invoked and nothing
\* has been returned.
C4_SynthesisFailureNoPlaybackNoResult ==
    FailedCall("Synthesis") =>
        /\ pc = "failed"
        /\ ~Invoked("Playback")
        /\ result = NoResult
C4_Witness ==
    /\ pc = "failed"
    /\ FailedCall("Synthesis")
    /\ args.play_audio
    /\ Len(delivered) = 2
    /\ ErrorKind(err) = "SynthesisFailed"

\* C5: if Playback failed, the run is done all the same: nothing is raised and
\* the returned record holds the transcription, the translation and the path
\* text_to_speech returned.
C5_PlaybackFailureIsNotFatal ==
    FailedCall("Playback") =>
        /\ pc = "done"
        /\ err = NoError
        /\ result = [returned |-> TRUE,
                     original_text |-> original_text,
                     translated_text |-> translated_text,
                     output_audio_path |-> output_audio_path]
        /\ original_text # Unset
        /\ translated_text # Unset
        /\ output_audio_path # Unset
C5_Witness ==
    /\ pc = "done"
    /\ Len(calls) = 4
    /\ calls[4].svc = "Playback"
    /\ calls[4].status = "failed"
    /\ result.returned

\* C6: once the input has turned out not to be an existing readable file,
\* the run has failed with InputNotFound and the Transcription Service has
\* not been called.
C6_UnreadableInputIsInputNotFound ==
    (pc \notin {"start", "ready", "idle", "transcribe_exists", "transcribe_open"}
        /\ inputFs[args.file_path] # "readable")
    => /\ pc = "failed"
       /\ ErrorKind(err) = "InputNotFound"
       /\ ~Invoked("Transcription")

\* C6, the part the code keeps: a run whose input is not an existing readable
\* file fails without calling the Transcription Service.
C6_UnreadableInputNeverTranscribed ==
    (pc \notin {"start", "ready", "idle", "transcribe_exists", "transcribe_open"}
        /\ inputFs[args.file_path] # "readable")
    => /\ pc = "failed"
       /\ calls = <<>>

\* C7: the calls of a run are a prefix of Transcription, Translation,
\* Synthesis, Playback; every call but the last has completed successfully,
\* so at most one call is in flight.
C7_CallsArePrefixOfStages ==
    /\ Len(calls) <= Len(Stages)
    /\ \A i \in 1..Len(calls) : calls[i].svc = Stages[i]
    /\ \A i \in 1..Len(calls) : i < Len(calls) => calls[i].status = "ok"
    /\ Cardinality({i \in 1..Len(calls) : calls[i].status = "pending"}) <= 1
C7_Witness ==
    /\ pc = "done"
    /\ Len(calls) = 4
    /\ \A i \in 1..4 : calls[i].svc = Stages[i] /\ calls[i].status = "ok"

\* C8: in a run that is done, Translation was given the text Transcription
\* returned and the caller's tag, Synthesis the text Translation returned and
\* the caller's voice, Playback (when invoked) the path the audio was written
\* to, and the returned record holds the transcription, the translation and
\* temp_audio/translated_<tag>.mp3, which is that written file.
C8_HandshakeIsExact ==
    pc = "done" =>
        /\ Len(calls) >= 3
        /\ calls[1].arg = args.file_path
        /\ calls[2].arg = [text |-> calls[1].ret, target |-> args.target_lang]
        /\ calls[3].arg = [text |-> calls[2].ret, voice_id |-> args.voice]
        /\ Len(calls) = 4 => calls[4].arg = output_path
        /\ result = [returned |-> TRUE,
                     original_text |-> calls[1].ret,
                     translated_text |-> calls[2].ret,
                     output_audio_path |->
                        "temp_audio/translated_" \o args.target_lang \o ".mp3"]
        /\ result.output_audio_path = output_path
        /\ outDir[output_path] # NoFile
C8_Witness ==
    /\ pc = "done"
    /\ args.file_path = "hello.mp3"
    /\ args.target_lang = "es"
    /\ Len(calls) = 4
    /\ calls[4].status = "ok"
    /\ Len(delivered) = 2
    /\ result = [returned |-> TRUE,
                 original_text |-> "Hello world",
                 translated_text |-> "Hola mundo",
                 output_audio_path |-> "temp_audio/translated_es.mp3"]

\* C9: while the stream is written, the output file followed by what waits
\* in f's buffer is the non-empty chunks delivered so far, in order; after
\* text_to_speech has returned the file itself holds exactly them and the
\* buffer is empty; the step that takes an empty chunk changes neither the
\* file nor the buffer and does not fail the run.
C9_FileIsConcatenationOfNonEmptyChunks ==
    /\ [](pc = "tts_stream" =>
            outDir[output_path] \o fBuffer = Flatten(NonEmptyChunks(delivered)))
    /\ [](pc \in {"playing", "done"} =>
            /\ outDir[output_path] = Flatten(NonEmptyChunks(delivered))
            /\ fBuffer = <<>>)
    /\ [][(pc = "tts_stream" /\ delivered' = Append(delivered, <<>>)) =>
             /\ pc' = "tts_stream"
             /\ SameFiles(outDir, outDir')
             /\ fBuffer' = fBuffer]_vars
C9_Witness ==
    /\ pc = "done"
    /\ delivered = << <<>>, <<3, 4, 5>> >>
    /\ outDir[result.output_audio_path] = <<3, 4, 5>>

\* C10: when a run is done and the run before it was done with the same tag,
\* both returned the same path, the second wrote that file, and the file
\* holds the second run's bytes and nothing else.
C10_SameTagOverwrites ==
    (pc = "done" /\ prev.pc = "done" /\ prev.target_lang = args.target_lang) =>
        /\ result.output_audio_path = prev.output_audio_path
        /\ output_path = prev.output_audio_path
        /\ outDir[prev.output_audio_path] = Flatten(NonEmptyChunks(delivered))
C10_Witness ==
    /\ pc = "done"
    /\ prev.pc = "done"
    /\ prev.target_lang = args.target_lang
    /\ runs = 2
    /\ delivered = << <<3, 4, 5>> >>
    /\ outDir[result.output_audio_path] = <<3, 4, 5>>

----------------------------------------------------------------------------
(* The returned texts *)

\* every collaborator the run called has answered without raising
AllCallsOk == \A i \in 1..Len(calls) : calls[i].status = "ok"

\* C11 as stated: when a run is done and every service succeeded, the three
\* fields of the returned dict are non-empty strings.
C11_ResultFieldsAreNonEmpty ==
    (pc = "done" /\ AllCallsOk) =>
        /\ result.original_text # ""
        /\ result.translated_text # ""
        /\ result.output_audio_path # ""

\* C11, amended: when a run is done and every service succeeded, the returned
\* path is a non-empty string, and original_text and translated_text are the
\* texts the Transcription and Translation services returned, so each is
\* non-empty exactly when the service's text is; the code checks neither.
C11_ResultFieldsAreTheServicesTexts ==
    (pc = "done" /\ AllCallsOk) =>
        /\ result.output_audio_path # ""
        /\ result.original_text = calls[1].ret
        /\ result.translated_text = calls[2].ret
        /\ (calls[1].ret # "" => result.original_text # "")
        /\ (calls[2].ret # "" => result.translated_text # "")
C11_Witness ==
    /\ pc = "done"
    /\ Len(calls) = 4
    /\ AllCallsOk
    /\ calls[1].ret = "Hello world"
    /\ calls[2].ret = "Hola mundo"
    /\ result.original_text # ""
    /\ result.translated_text # ""

----------------------------------------------------------------------------
(* Playback *)

\* C12: the Playback Service is called only when play_audio is true (its
\* default) and transcription, translation and synthesis have succeeded; it is
\* called once, after the output file has been written and closed and before
\* the dict is returned; a run that is done has called it exactly when
\* play_audio is true, a failed run never has, and with play_audio false the
\* run is never in the playing step and ends with three calls.
C12_PlaybackIffToggleAndSuccess ==
    /\ DefaultPlayAudio
    /\ Invoked("Playback") =>
          /\ args.play_audio
          /\ Len(calls) = 4
          /\ \A i \in 1..3 : calls[i].svc = Stages[i] /\ calls[i].status = "ok"
          /\ calls[4].svc = "Playback"
          /\ ~handleOpen
          /\ calls[4].arg = output_audio_path
          /\ outDir[calls[4].arg] = Flatten(NonEmptyChunks(delivered))
          /\ pc \in {"playing", "done"}
          /\ (pc = "playing") = (calls[4].status = "pending")
          /\ (pc = "playing") => result = NoResult
    /\ pc = "playing" => Invoked("Playback")
    /\ pc = "done" => (Invoked("Playback") <=> args.play_audio)
    /\ (pc = "done" /\ ~args.play_audio) => Len(calls) = 3
    /\ pc = "failed" => ~Invoked("Playback")
C12_Witness ==
    /\ pc = "playing"
    /\ args.play_audio
    /\ calls[4].status = "pending"
    /\ outDir[calls[4].arg] = <<1, 2, 3, 4, 5>>
    /\ result = NoResult

----------------------------------------------------------------------------
(* The credential check *)

\* the credentials that are absent or empty
AbsentOrEmpty == {k \in DOMAIN environ : environ[k] = "<unset>" \/ environ[k] = ""}

\* C13: once check_environment has returned, it has printed one line for
\* each of the two credentials, in order, saying "is set" for a credential
\* with a non-empty value and "is missing" for an absent or empty one; the
\* keys it collected as missing are exactly the absent or empty ones, each
\* once, and they are the ones its warning names; it returned true exactly
\* when both credentials have a non-empty value.
C13_CredentialCheckIsExact ==
    mainPc \notin {"not_started", "check_environment"} =>
        /\ DOMAIN environ = {"OPENAI_API_KEY", "ELEVENLABS_API_KEY"}
        /\ \A i \in 1..2 :
              printed[i] = IF required_keys[i] \in AbsentOrEmpty
                           THEN [mark |-> "missing",
                                 text |-> required_keys[i] \o " is missing"]
                           ELSE [mark |-> "ok",
                                 text |-> required_keys[i] \o " is set"]
        /\ {missing_keys[i] : i \in 1..Len(missing_keys)} = AbsentOrEmpty
        /\ Len(missing_keys) = Cardinality(AbsentOrEmpty)
        /\ env_ok = (AbsentOrEmpty = {})
        /\ (AbsentOrEmpty # {}) =>
              /\ printed[3].mark = "warning"
              /\ \A k \in DOMAIN environ :
                    (k \in AbsentOrEmpty) <=>
                    (\E pre \in {"", "OPENAI_API_KEY, "} :
                       \E post \in {"", ", ELEVENLABS_API_KEY"} :
                         printed[3].text =
                           "Warning: Missing API keys: " \o pre \o k \o post)
C13_Witness ==
    /\ mainPc = "exited"
    /\ environ["OPENAI_API_KEY"] = ""
    /\ environ["ELEVENLABS_API_KEY"] = "sk-test"
    /\ missing_keys = <<"OPENAI_API_KEY">>
    /\ env_ok = FALSE
    /\ banner = "SETUP INCOMPLETE"

----------------------------------------------------------------------------
(* The output file *)

\* C14: the output file object is open exactly while the run is inside the
\* with block of text_to_speech; once text_to_speech has returned or raised
\* (the stream ended, the stream failed at any chunk, a write or the flush
\* of the close failed) it is closed, and a run that failed in the synthesis
\* stage raised SynthesisFailed and returned no dict.
C14_HandleReleasedOnEveryExit ==
    /\ handleOpen <=> pc = "tts_stream"
    /\ (pc = "failed" /\ FailedStage = "Synthesizing") =>
          /\ ~handleOpen
          /\ ErrorKind(err) = "SynthesisFailed"
          /\ result = NoResult
C14_Witness ==
    /\ pc = "failed"
    /\ FailedStage = "Synthesizing"
    /\ delivered = << <<1, 2>>, <<3, 4, 5>> >>
    /\ outDir[output_path] = <<1>>
    /\ err.cause = FileTooLarge
    /\ ~handleOpen
    /\ ErrorKind(err) = "SynthesisFailed"

\* the run failed because the stream of the Synthesis Service raised, and
\* the close of the output file went through
StreamFailed ==
    /\ pc = "failed"
    /\ output_path # Unset
    /\ FailedCall("Synthesis")
    /\ err.cause \in Causes

\* C15: the step that fails the run inside the chunk loop only closes the
\* file: every other file stays as it is, the output file is still there,
\* with nothing of what it held before it was opened: it holds a beginning
\* of the non-empty chunks the stream delivered.  When it is the stream that
\* failed, after k chunks, what was written and buffered is the non-empty
\* chunks among those k, in order, and the close leaves exactly that in the
\* file (when the storage fails as well, in a write or in the flush of the
\* close, the file holds less).  The step that hands the failure to the
\* caller leaves the files alone: nothing is cleaned up or restored.
C15_MidStreamFailureLeavesPartialFile ==
    /\ [][(pc = "tts_stream" /\ pc' = "failed") =>
             /\ \A p \in DOMAIN outDir \ {output_path} :
                   SameFile(outDir[p], outDir'[p])
             /\ output_path' = output_path
             /\ fBuffer' = <<>>
             /\ outDir'[output_path] # NoFile
             /\ IsPrefix(outDir'[output_path],
                         Flatten(NonEmptyChunks(delivered')))
             /\ StreamFailed' =>
                   /\ delivered' = delivered
                   /\ Flatten(NonEmptyChunks(delivered)) =
                         outDir[output_path] \o fBuffer
                   /\ Flatten(NonEmptyChunks(delivered)) =
                         outDir'[output_path]]_vars
    /\ [][pc = "failed" => SameFiles(outDir, outDir')]_vars
    /\ [](StreamFailed =>
             Flatten(NonEmptyChunks(delivered)) = outDir[output_path])
C15_Witness ==
    /\ StreamFailed
    /\ prev.pc = "done"
    /\ prev.target_lang = args.target_lang
    /\ delivered = << <<3, 4, 5>>, <<>> >>
    /\ outDir[output_path] = <<3, 4, 5>>

----------------------------------------------------------------------------
(* Termination *)

\* the steps of a run in the order of the code
RunPcs == <<"transcribe_exists", "transcribe_open", "transcribing",
            "translating", "synthesizing", "tts_open", "tts_stream", "playing">>
InRun == \E i \in 1..Len(RunPcs) : pc = RunPcs[i]
Terminal == pc \in {"done", "failed"}
Position(p) ==
    IF \E i \in 1..Len(RunPcs) : RunPcs[i] = p
    THEN CHOOSE i \in 1..Len(RunPcs) : RunPcs[i] = p
    ELSE Len(RunPcs) + 1

\* C16: a run that has started eventually ends; while it runs nothing has
\* been returned or raised; when it has ended it is either done with a dict
\* returned and nothing raised, or failed with an exception raised and
\* nothing returned; a step of a run never goes back in the code, and the
\* only step that stays where it is takes one more chunk from the stream
\* (or is the environment removing the input file).
C16_EveryRunTerminates ==
    /\ InRun ~> Terminal
    /\ [](InRun => (result = NoResult /\ err = NoError))
    /\ [](pc = "done" => (result.returned /\ err = NoError))
    /\ [](pc = "failed" => (result = NoResult /\ err # NoError))
    /\ [][InRun =>
             /\ InRun' \/ Terminal'
             /\ Position(pc') >= Position(pc)
             /\ Position(pc') = Position(pc) =>
                   \/ pc = "tts_stream" /\ Len(delivered') = Len(delivered) + 1
                   \/ pc = "transcribe_open" /\ inputFs' # inputFs]_vars
C16_Witness ==
    /\ pc = "done"
    /\ runs = 2
    /\ prev.pc = "failed"
    /\ Len(calls) = 4
    /\ Len(delivered) = MaxChunks

----------------------------------------------------------------------------
(* The output directory *)

\* C17: a construction made when the output directory exists (by
\* AudioTranslator() or inside the convenience function) ends without an
\* error and leaves the directory and every file in it as they were;
\* after a construction the directory exists, and a construction that
\* follows another one changes nothing at all.
C17_ConstructionIsIdempotent ==
    /\ [][(pc \in {"start", "ready", "idle"} /\ inputFs[output_dir] = "directory") =>
             /\ inputFs' = inputFs
             /\ SameFiles(outDir, outDir')
             /\ err' = NoError]_vars
    /\ [][~(pc = "ready" /\ pc' = "ready")]_vars
    /\ [](pc = "ready" => (inputFs[output_dir] = "directory" /\ err = NoError))
C17_Witness ==
    /\ pc = "ready"
    /\ runs = 1
    /\ prev.pc = "done"
    /\ outDir[prev.output_audio_path] = <<1, 2, 3, 4, 5>>
    /\ inputFs[output_dir] = "directory"

\* the steps of a run that come before the output file is opened
BeforeStreaming ==
    pc \in {"transcribe_exists", "transcribe_open", "transcribing",
            "translating", "synthesizing"}

\* C18: no step a run takes before text_to_speech opens the output file
\* creates, truncates or changes a file of the output directory, and neither
\* does a failing open; so when a run has failed in resolving, transcribing
\* or translating, or because the synthesis request was rejected, the file
\* the previous run returned is still there.
C18_EarlyFailureLeavesFilesAlone ==
    /\ [][BeforeStreaming => SameFiles(outDir, outDir')]_vars
    /\ [][(pc = "tts_open" /\ pc' = "failed") =>
             SameFiles(outDir, outDir')]_vars
    /\ []((pc = "failed" /\ output_path = Unset /\ prev.pc = "done") =>
             outDir[prev.output_audio_path] # NoFile)
C18_Witness ==
    /\ pc = "failed"
    /\ Len(calls) = 3
    /\ FailedCall("Synthesis")
    /\ output_path = Unset
    /\ prev.pc = "done"
    /\ prev.target_lang = args.target_lang
    /\ outDir[prev.output_audio_path] = <<3, 4, 5, 1, 2>>

\* C19: a step changes the file translated_<t>.mp3 only if it belongs to a
\* run whose target language is t and which has reached the open of the
\* output file; the directory never holds any other file; and from the open
\* on, the file of the run's own tag (with what waits in f's buffer, while
\* the stream is written) holds the non-empty chunks this run has received,
\* whatever earlier runs wrote (a beginning of them, when a write or the
\* close of the file failed).
C19_OnlyTheTagsFileChanges ==
    /\ [][\A t \in Tags :
             ~SameFile(outDir["temp_audio/translated_" \o t \o ".mp3"],
                       outDir'["temp_audio/translated_" \o t \o ".mp3"])
             => (args.target_lang = t /\ pc \in {"tts_open", "tts_stream"})]_vars
    /\ [](DOMAIN outDir = {"temp_audio/translated_" \o t \o ".mp3" : t \in Tags})
    /\ [](pc = "tts_stream" =>
           Flatten(NonEmptyChunks(delivered)) =
             outDir["temp_audio/translated_" \o args.target_lang \o ".mp3"]
               \o fBuffer)
    /\ []((pc \in {"playing", "done"} \/ StreamFailed) =>
           Flatten(NonEmptyChunks(delivered)) =
             outDir["temp_audio/translated_" \o args.target_lang \o ".mp3"])
    /\ []((pc = "failed" /\ Len(delivered) > 0) =>
           IsPrefix(outDir["temp_audio/translated_" \o args.target_lang \o ".mp3"],
                    Flatten(NonEmptyChunks(delivered))))
C19_Witness ==
    /\ pc = "done"
    /\ args.target_lang = "fr"
    /\ prev.pc = "done"
    /\ prev.target_lang = "es"
    /\ outDir["temp_audio/translated_es.mp3"] = <<1, 2>>
    /\ outDir["temp_audio/translated_fr.mp3"] = <<3, 4, 5>>

====
